---- MODULE Spec2Model ----
(***************************************************************************)
(* A model of package spi (github.com/ecc1/spi): a Device over a Linux     *)
(* spidev character device.  The model covers Open / Close with the        *)
(* exclusive advisory lock and the optional GPIO chip-select, Transfer,    *)
(* the configuration accessors built on ioctl, and the Read loop of the    *)
(* earlier variant of the package.                                         *)
(*                                                                         *)
(* Integers wider than 31 bits do not fit the model checker's integers,    *)
(* so every Go integer is held as its memory image: a little-endian        *)
(* sequence of bytes (0..255) of the type's width.  A conversion such as   *)
(* uint32(n) or int(speed) is then what it is in memory: a truncation or   *)
(* an extension.  A request code is the pair <<high 16 bits, low 16 bits>>.*)
(***************************************************************************)
EXTENDS Integers, Sequences, FiniteSets, TLC

(***************************************************************************)
(* Bounds of the model.                                                    *)
(***************************************************************************)
NumSlots == 2      \* callers; each obtains at most one *Device
MaxFd == 2         \* size of the process's descriptor table
MaxLen == 2        \* longest buffer handed to Transfer
MaxReadLen == 3    \* longest buffer handed to Read
MaxScript == 3     \* reads the backend answers before it runs dry

Slots == 1..NumSlots
Fds == 1..MaxFd
NoFd == 0
Paths == {"/dev/spidev5.1", "/dev/spidev5.2"}
DefaultPath == "/dev/spidev5.1"
NoPath == "-"
NoPin == 0
Pins == {7}

VARIABLES
  intSize,  \* bytes of the build's Go int (4 on 386/arm, 8 on amd64/arm64)
  dev,      \* dev[h]: the *Device of caller h and the position of its Open
  fdtab,    \* kernel: descriptor -> path of its open file description
  lock,     \* kernel: path -> descriptor whose description holds the flock
  regs,     \* kernel driver: path -> request number -> stored scratch bytes
  last,     \* the API call that took a step last: arguments, result, events
  rd        \* the Read call in progress (earlier variant of the package)

vars == <<intSize, dev, fdtab, lock, regs, last, rd>>
kernel == <<fdtab, lock, regs>>

(***************************************************************************)
(* Memory images of integers.                                              *)
(***************************************************************************)
Zeros(k) == [i \in 1..k |-> 0]
Trunc(v, k) == SubSeq(v, 1, k)
ZeroExt(v, k) == v \o Zeros(k - Len(v))
Pad(v, k) == IF Len(v) >= k THEN Trunc(v, k) ELSE ZeroExt(v, k)
U32OfNat(n) == <<n % 256, (n \div 256) % 256, (n \div 65536) % 256, 0>>

\* uint8(n), uint32(n) of a Go int n; int(b), int(speed) of a uint8, uint32.
\* A conversion that clamps what does not fit a byte to 255 instead of wrapping.
ToUint8Saturating(n) ==
  IF SubSeq(n, 2, Len(n)) = Zeros(Len(n) - 1) THEN Trunc(n, 1) ELSE <<255>>
ToUint8(n) == Trunc(n, 1)
ToUint32(n) == Trunc(n, 4)
IntOfUint8(b) == ZeroExt(b, intSize)
\* int(int32(u)): the conversion through a signed 32-bit value.
IntOfInt32(u) == IF u[4] >= 128 THEN Pad(u \o [i \in 1..4 |-> 255], intSize)
                 ELSE Pad(u, intSize)
IntOfUint32(u) == Pad(u, intSize)

(***************************************************************************)
(* Control-block codec (spidev.go).                                        *)
(***************************************************************************)
\* An increment that encodes half the descriptor's size (16 bytes a segment).
IncrOfHalfDescriptor == <<\h0010, \h0000>>
spi_IOC_MESSAGE_base == <<\h4000, \h6B00>>
spi_IOC_MESSAGE_incr == <<\h0020, \h0000>>
\* The read-mode code with the request number of the LSB-first code.
RdModeWrongNumber == <<\h8001, \h6B02>>
spi_IOC_RD_MODE == <<\h8001, \h6B01>>
spi_IOC_WR_MODE == <<\h4001, \h6B01>>
spi_IOC_RD_LSB_FIRST == <<\h8001, \h6B02>>
spi_IOC_WR_LSB_FIRST == <<\h4001, \h6B02>>
spi_IOC_RD_BITS_PER_WORD == <<\h8001, \h6B03>>
spi_IOC_WR_BITS_PER_WORD == <<\h4001, \h6B03>>
spi_IOC_RD_MAX_SPEED_HZ == <<\h8004, \h6B04>>
spi_IOC_WR_MAX_SPEED_HZ == <<\h4004, \h6B04>>

\* 32-bit arithmetic on <<high, low>> halves.
Add32(a, b) ==
  LET lo == a[2] + b[2]
  IN  <<(a[1] + b[1] + (lo \div 65536)) % 65536, lo % 65536>>
Mul32(a, n) ==
  LET lo == a[2] * n
  IN  <<((a[1] * n) + (lo \div 65536)) % 65536, lo % 65536>>

spi_IOC_MESSAGE(n) == Add32(spi_IOC_MESSAGE_base, Mul32(spi_IOC_MESSAGE_incr, n))

\* Fields of a request code: direction (bits 30..31), payload size (bits
\* 16..29), type (bits 8..15), number (bits 0..7).
IocDir(op) == op[1] \div 16384
IocSize(op) == op[1] % 16384
IocType(op) == op[2] \div 256
IocNr(op) == op[2] % 256
IocWrite == 1
IocRead == 2
SpiIocMagic == 107
TransferSize == 32

\* Byte widths of the fields of struct spi_ioc_transfer.
spi_ioc_transfer_width ==
  [tx_buf |-> 8, rx_buf |-> 8, len |-> 4, speed_hz |-> 4,
   delay_usecs |-> 2, bits_per_word |-> 1, cs_change |-> 1,
   tx_nbits |-> 1, rx_nbits |-> 1, pad |-> 2]

\* The descriptor of the package's historical variant: a settle delay of 1.
TransferWithSettleDelay(tx, rx, len, speed) ==
  [tx_buf |-> tx, rx_buf |-> rx, len |-> len, speed_hz |-> speed,
   delay_usecs |-> 1, bits_per_word |-> 8, cs_change |-> 0,
   tx_nbits |-> 0, rx_nbits |-> 0, pad |-> 0]
\* spi_ioc_transfer as Transfer fills it; the fields it leaves out are zero.
spi_ioc_transfer(tx, rx, len, speed) ==
  [tx_buf |-> tx, rx_buf |-> rx, len |-> len, speed_hz |-> speed,
   delay_usecs |-> 0, bits_per_word |-> 8, cs_change |-> 0,
   tx_nbits |-> 0, rx_nbits |-> 0, pad |-> 0]

(***************************************************************************)
(* The operating system as the package sees it: a descriptor table with    *)
(* lowest-free allocation, flock held per open file description, and a     *)
(* device-control backend that stores the scratch bytes written under a    *)
(* request number and echoes them on read.                                 *)
(***************************************************************************)
FreeFds == {fd \in Fds : fdtab[fd] = NoPath}
LowestFree == CHOOSE fd \in FreeFds : \A g \in FreeFds : fd <= g

\* close(fd) on a live descriptor: the entry goes, and with it the lock its
\* open file description held.
ClosedTab(fd) == [fdtab EXCEPT ![fd] = NoPath]
ClosedLock(fd) == [p \in Paths |-> IF lock[p] = fd THEN NoFd ELSE lock[p]]

\* flock(fd, LOCK_EX|LOCK_NB): EWOULDBLOCK while another description holds
\* the lock on the file; otherwise the lock, or some other error.
FlockResult(p, otherErr) ==
  IF lock[p] # NoFd THEN "EWOULDBLOCK"
  ELSE IF otherErr THEN "ENOLCK"
  ELSE "nil"

RegNrs == 1..4
InitRegs == [n \in RegNrs |-> CASE n = 3 -> <<8>>
                               [] n = 4 -> <<32, 161, 7, 0>>
                               [] OTHER -> <<0>>]

\* ioctl(fd, op, arg): the errno, the memory at arg afterwards, the registers.
Ioctl(fd, op, arg, fail) ==
  LET same == [errno |-> "nil", arg |-> arg, regs |-> regs]
  IN
  IF fd \notin Fds \/ fdtab[fd] = NoPath THEN [same EXCEPT !.errno = "EBADF"]
  ELSE IF fail THEN [same EXCEPT !.errno = "EIO"]
  ELSE IF IocType(op) # SpiIocMagic THEN [same EXCEPT !.errno = "ENOTTY"]
  ELSE IF IocNr(op) = 0 /\ IocDir(op) = IocWrite
            /\ IocSize(op) > 0 /\ IocSize(op) % TransferSize = 0 THEN same
  ELSE IF IocNr(op) \in RegNrs /\ IocDir(op) = IocWrite THEN
    [same EXCEPT !.regs = [regs EXCEPT ![fdtab[fd]][IocNr(op)] = Pad(arg, IocSize(op))]]
  ELSE IF IocNr(op) \in RegNrs /\ IocDir(op) = IocRead THEN
    LET got == Pad(regs[fdtab[fd]][IocNr(op)], IocSize(op))
    IN  [same EXCEPT !.arg = Trunc(got \o SubSeq(arg, Len(got) + 1, Len(arg)), Len(arg))]
  ELSE [same EXCEPT !.errno = "ENOTTY"]

\* Device.syscall: the ioctl on dev.fd; a non-zero errno is the error.
syscall(fd, op, arg, fail) == Ioctl(fd, op, arg, fail)
syscallU8(fd, op, arg, fail) == syscall(fd, op, arg, fail)
syscallU32(fd, op, arg, fail) == syscall(fd, op, arg, fail)

(***************************************************************************)
(* Inputs.                                                                 *)
(***************************************************************************)
Million == <<64, 66, 15>>                  \* 1000000 = 0x0F4240
AllOnes(k) == [i \in 1..k |-> 255]

\* Go ints of the build's width, as callers can write them: 0, 1000000,
\* 2^31 - 1, and, where an int holds them, 2^32 - 1 and 2^32 + 1000000; -1.
IntInputs ==
  IF intSize = 8
  THEN {Zeros(8), Pad(Million, 8), Pad(<<255, 255, 255, 127>>, 8),
        Pad(AllOnes(4), 8), Pad(Million, 4) \o Pad(<<1>>, 4), AllOnes(8)}
  ELSE {Zeros(4), Pad(Million, 4), <<255, 255, 255, 127>>, AllOnes(4)}
OpenSpeeds ==
  IF intSize = 8
  THEN {Pad(Million, 8), Pad(Million, 4) \o Pad(<<1>>, 4)}
  ELSE {Pad(Million, 4), AllOnes(4)}
CustomCSInputs == {NoPin} \cup Pins

NoDevice ==
  [st |-> "none", path |-> NoPath, speed |-> <<>>, customCS |-> NoPin,
   fd |-> NoFd, cs |-> NoPin, ev |-> <<>>]
Call(op, h, arg, res, val, ev) ==
  [op |-> op, h |-> h, arg |-> arg, res |-> res, val |-> val, ev |-> ev]

NoRead ==
  [pc |-> "idle", len |-> 0, off |-> 0, got |-> 0, nerr |-> 0, cs |-> NoPin,
   asserted |-> FALSE, res |-> "nil", script |-> <<>>, tick |-> 0]

Init ==
  /\ intSize \in {4, 8}
  /\ dev = [h \in Slots |-> NoDevice]
  /\ fdtab = [fd \in Fds |-> NoPath]
  /\ lock = [p \in Paths |-> NoFd]
  /\ regs = [p \in Paths |-> InitRegs]
  /\ last = Call("none", 0, <<>>, "nil", <<>>, <<>>)
  /\ rd = NoRead

(***************************************************************************)
(* Open (spi.go:20-46), one step per system call so that two Opens         *)
(* interleave as two threads or processes would.                           *)
(***************************************************************************)
\* Variants of LockAttempted: no lock at all, and a lock for the default
\* chip-select only.
LockNever(customCS) == FALSE
LockOnlyDefaultCS(customCS) == customCS = NoPin
\* Whether Open tries the lock: spi.go:26 calls Flock whatever customCS is.
LockAttempted(customCS) == TRUE

\* A failure path that returns without closing the descriptor.
AbandonLeak(fd) == [tab |-> fdtab, lock |-> lock]
\* _ = unix.Close(fd) on a failure path of Open (spi.go:33, 36, 42).
Abandon(fd) == [tab |-> ClosedTab(fd), lock |-> ClosedLock(fd)]

\* unix.Open (spi.go:21-24).
OpenBegin(h, p, speed, customCS, ok) ==
  /\ dev[h].st = "none"
  /\ IF ok /\ FreeFds # {}
     THEN LET fd == LowestFree
          IN  /\ fdtab' = [fdtab EXCEPT ![fd] = p]
              /\ dev' = [dev EXCEPT ![h] =
                   [st |-> "flock", path |-> p, speed |-> speed,
                    customCS |-> customCS, fd |-> fd, cs |-> NoPin,
                    ev |-> << <<"open", fd>> >>]]
              /\ last' = Call("Open", h, <<p, speed, customCS>>, "pending",
                              <<>>, << <<"open", fd>> >>)
     ELSE /\ last' = Call("Open", h, <<p, speed, customCS>>, "openerr",
                          <<>>, << <<"open", NoFd>> >>)
          /\ UNCHANGED <<dev, fdtab>>
  /\ UNCHANGED <<intSize, lock, regs, rd>>

\* unix.Flock and the switch on its result (spi.go:26-38).
OpenFlock(h, otherErr) ==
  /\ dev[h].st = "flock"
  /\ LET d == dev[h]
         arg == <<d.path, d.speed, d.customCS>>
         r == FlockResult(d.path, otherErr)
         ev == d.ev \o << <<"flock", d.fd, r>> >>
     IN
     IF ~LockAttempted(d.customCS)
     THEN /\ dev' = [dev EXCEPT ![h].st = "gpio"]
          /\ last' = Call("Open", h, arg, "pending", <<>>, d.ev)
          /\ UNCHANGED <<fdtab, lock>>
     ELSE IF r = "nil"
     THEN /\ lock' = [lock EXCEPT ![d.path] = d.fd]
          /\ UNCHANGED fdtab
          /\ IF d.customCS = NoPin
             THEN /\ dev' = [dev EXCEPT ![h].st = "open", ![h].ev = <<>>]
                  /\ last' = Call("Open", h, arg, "nil", <<>>, ev)
             ELSE /\ dev' = [dev EXCEPT ![h].st = "gpio", ![h].ev = ev]
                  /\ last' = Call("Open", h, arg, "pending", <<>>, ev)
     ELSE /\ fdtab' = Abandon(d.fd).tab
          /\ lock' = Abandon(d.fd).lock
          /\ dev' = [dev EXCEPT ![h] = NoDevice]
          /\ last' = Call("Open", h, arg,
                          IF r = "EWOULDBLOCK" THEN "busy" ELSE "openerr",
                          <<>>, ev \o << <<"close", d.fd>> >>)
  /\ UNCHANGED <<intSize, regs, rd>>

\* gpio.Output(customCS, true, false) and the return (spi.go:40-45).
OpenGpio(h, ok) ==
  /\ dev[h].st = "gpio"
  /\ LET d == dev[h]
         arg == <<d.path, d.speed, d.customCS>>
         ev == d.ev \o << <<"gpio", d.customCS, ok>> >>
     IN
     IF ok
     THEN /\ dev' = [dev EXCEPT ![h].st = "open", ![h].cs = d.customCS,
                                ![h].ev = <<>>]
          /\ last' = Call("Open", h, arg, "nil", <<>>, ev)
          /\ UNCHANGED <<fdtab, lock>>
     ELSE /\ fdtab' = Abandon(d.fd).tab
          /\ lock' = Abandon(d.fd).lock
          /\ dev' = [dev EXCEPT ![h] = NoDevice]
          /\ last' = Call("Open", h, arg, "cserr", <<>>,
                          ev \o << <<"close", d.fd>> >>)
  /\ UNCHANGED <<intSize, regs, rd>>

(***************************************************************************)
(* Close (spi.go:49-51): unix.Close(dev.fd).  The Device keeps no record   *)
(* of having been closed; "closed" in dev[h].st is the model's note that   *)
(* Close has been called on it.                                            *)
(***************************************************************************)
CloseDev(h) ==
  /\ LET fd == dev[h].fd
     IN
     IF fdtab[fd] # NoPath
     THEN /\ fdtab' = ClosedTab(fd)
          /\ lock' = ClosedLock(fd)
          /\ last' = Call("Close", h, <<>>, "nil", <<>>, << <<"close", fd>> >>)
     ELSE /\ last' = Call("Close", h, <<>>, "EBADF", <<>>, << <<"close", fd>> >>)
          /\ UNCHANGED <<fdtab, lock>>
  /\ dev' = [dev EXCEPT ![h].st = "closed"]
  /\ UNCHANGED <<intSize, regs, rd>>

Close(h) == dev[h].st = "open" /\ CloseDev(h)

(***************************************************************************)
(* Transfer (spi.go:54-73).  The operations below act on the Device value  *)
(* whatever has been done to it; the wrappers that follow say in which     *)
(* state of the Device a caller invokes them.                              *)
(***************************************************************************)
\* A check that only catches a send buffer longer than the receive buffer.
LengthMismatchOneSided(ls, lr) == ls > lr
\* spi.go:55, the only check on the buffers.
LengthMismatch(ls, lr) == ls # lr
\* spi.go:62-63: &snd[0] and &rcv[0] panic (index out of range) on an empty slice.
IndexPanics(n) == n = 0
\* spi.go:58-61: Write(true) now, Write(false) deferred to the return (or panic).
CsAssert(cs) == IF cs # NoPin THEN << <<"cs", TRUE>> >> ELSE <<>>
CsDeassert(cs) == IF cs # NoPin THEN << <<"cs", FALSE>> >> ELSE <<>>

DoTransfer(h, ls, lr, fail) ==
  LET d == dev[h]
      arg == <<ls, lr>>
  IN
  /\ IF LengthMismatch(ls, lr)
     THEN /\ last' = Call("Transfer", h, arg, "lenmismatch", <<>>, <<>>)
          /\ UNCHANGED regs
     ELSE IF IndexPanics(ls) \/ IndexPanics(lr)
     THEN /\ last' = Call("Transfer", h, arg, "panic", <<>>,
                          CsAssert(d.cs) \o CsDeassert(d.cs))
          /\ UNCHANGED regs
     ELSE LET tr == spi_ioc_transfer("snd", "rcv", U32OfNat(ls), ToUint32(d.speed))
              op == spi_IOC_MESSAGE(1)
              r == syscall(d.fd, op, tr, fail)
          IN  /\ last' = Call("Transfer", h, arg, r.errno, <<>>,
                              CsAssert(d.cs) \o << <<"ioctl", d.fd, op, tr>> >>
                                \o CsDeassert(d.cs))
              /\ regs' = r.regs
  /\ UNCHANGED <<intSize, dev, fdtab, lock, rd>>

(***************************************************************************)
(* Configuration accessors (spi.go:75-130): a scratch variable of the      *)
(* accessor's width, one ioctl, the value converted for the caller.        *)
(***************************************************************************)
\* One accessor call: the ioctl on scratch, then the result recorded.
Accessor(name, h, arg, op, scratch, r, val) ==
  /\ last' = Call(name, h, arg, r.errno, val, << <<"ioctl", dev[h].fd, op, scratch>> >>)
  /\ regs' = r.regs
  /\ UNCHANGED <<intSize, dev, fdtab, lock, rd>>

DoMode(h, fail) ==
  LET r == syscallU8(dev[h].fd, spi_IOC_RD_MODE, <<0>>, fail)
  IN  Accessor("Mode", h, <<>>, spi_IOC_RD_MODE, <<0>>, r, r.arg)

DoSetMode(h, mode, fail) ==
  LET r == syscallU8(dev[h].fd, spi_IOC_WR_MODE, mode, fail)
  IN  Accessor("SetMode", h, mode, spi_IOC_WR_MODE, mode, r, <<>>)

DoLSBFirst(h, fail) ==
  LET r == syscallU8(dev[h].fd, spi_IOC_RD_LSB_FIRST, <<0>>, fail)
  IN  Accessor("LSBFirst", h, <<>>, spi_IOC_RD_LSB_FIRST, <<0>>, r, r.arg # <<0>>)

DoSetLSBFirst(h, lsb, fail) ==
  LET b == IF lsb THEN <<1>> ELSE <<0>>
      r == syscallU8(dev[h].fd, spi_IOC_WR_LSB_FIRST, b, fail)
  IN  Accessor("SetLSBFirst", h, lsb, spi_IOC_WR_LSB_FIRST, b, r, <<>>)

DoBitsPerWord(h, fail) ==
  LET r == syscallU8(dev[h].fd, spi_IOC_RD_BITS_PER_WORD, <<0>>, fail)
  IN  Accessor("BitsPerWord", h, <<>>, spi_IOC_RD_BITS_PER_WORD, <<0>>, r,
               IntOfUint8(r.arg))

DoSetBitsPerWord(h, n, fail) ==
  LET bits == ToUint8(n)
      r == syscallU8(dev[h].fd, spi_IOC_WR_BITS_PER_WORD, bits, fail)
  IN  Accessor("SetBitsPerWord", h, n, spi_IOC_WR_BITS_PER_WORD, bits, r, <<>>)

DoMaxSpeed(h, fail) ==
  LET r == syscallU32(dev[h].fd, spi_IOC_RD_MAX_SPEED_HZ, Zeros(4), fail)
  IN  Accessor("MaxSpeed", h, <<>>, spi_IOC_RD_MAX_SPEED_HZ, Zeros(4), r,
               IntOfUint32(r.arg))

DoSetMaxSpeed(h, n, fail) ==
  LET speed == ToUint32(n)
      r == syscallU32(dev[h].fd, spi_IOC_WR_MAX_SPEED_HZ, speed, fail)
  IN  Accessor("SetMaxSpeed", h, n, spi_IOC_WR_MAX_SPEED_HZ, speed, r, <<>>)

ModeInputs == {<<0>>, <<1>>, <<2>>, <<3>>}
BitsInputs == {Pad(<<8>>, intSize), Pad(<<16>>, intSize), Pad(<<8, 1>>, intSize)}
Lens == 0..MaxLen

(***************************************************************************)
(* Callers that keep to the API's protocol: operations on a Device between *)
(* its Open and its Close.                                                 *)
(***************************************************************************)
Transfer(h, ls, lr, fail) == dev[h].st = "open" /\ DoTransfer(h, ls, lr, fail)

Next ==
  \/ \E h \in Slots, p \in Paths, speed \in OpenSpeeds, customCS \in CustomCSInputs,
        ok \in BOOLEAN : OpenBegin(h, p, speed, customCS, ok)
  \/ \E h \in Slots, otherErr \in BOOLEAN : OpenFlock(h, otherErr)
  \/ \E h \in Slots, ok \in BOOLEAN : OpenGpio(h, ok)
  \/ \E h \in Slots : Close(h)
  \/ \E h \in Slots, ls \in Lens, lr \in Lens, fail \in BOOLEAN : Transfer(h, ls, lr, fail)

Spec == Init /\ [][Next]_vars

(***************************************************************************)
(* Properties of Transfer's checks and chip-select sequencing.             *)
(***************************************************************************)
IsTransfer == last.op = "Transfer"
HasChipSelect(h) == dev[h].cs # NoPin

\* C1: a Transfer whose buffers differ in length returns the length-mismatch
\* error and makes no system call and no chip-select write before it.
C1_LengthMismatchRejected ==
  (IsTransfer /\ last.arg[1] # last.arg[2])
    => (last.res = "lenmismatch" /\ last.ev = <<>>)

C1_Witness ==
  /\ IsTransfer /\ last.arg[1] # last.arg[2] /\ last.arg[1] < last.arg[2]
  /\ last.res = "lenmismatch"
  /\ HasChipSelect(last.h)

\* C2: a Transfer with two empty buffers returns the length-mismatch error,
\* makes no device-control call and does not abort (panic in) the caller.
C2_EmptyBuffersRejected ==
  (IsTransfer /\ last.arg = <<0, 0>>)
    => (last.res = "lenmismatch" /\ last.ev = <<>>)

\* C3: on a Device with a chip-select, every Transfer that passes the length
\* check makes exactly Write(true), one single-segment ioctl, Write(false),
\* and returns the ioctl's result.
BracketedTransfer ==
  /\ Len(last.ev) = 3
  /\ last.ev[1] = <<"cs", TRUE>>
  /\ last.ev[2][1] = "ioctl"
  /\ last.ev[2][3] = <<\h4020, \h6B00>>
  /\ IocSize(last.ev[2][3]) = 1 * TransferSize
  /\ last.ev[3] = <<"cs", FALSE>>
  /\ last.res \in {"nil", "EIO", "EBADF", "ENOTTY"}

C3_ChipSelectBrackets ==
  (IsTransfer /\ last.arg[1] = last.arg[2] /\ HasChipSelect(last.h))
    => BracketedTransfer

\* The same for non-empty buffers, where the code does keep the bracket,
\* including when the ioctl fails.
ChipSelectBracketsNonEmpty ==
  (IsTransfer /\ last.arg[1] = last.arg[2] /\ last.arg[1] > 0
     /\ HasChipSelect(last.h))
    => BracketedTransfer

ChipSelectBracketOnFailure ==
  IsTransfer /\ HasChipSelect(last.h) /\ last.res = "EIO" /\ BracketedTransfer

(***************************************************************************)
(* Properties of Open and Close.                                           *)
(***************************************************************************)
IsOpen == last.op = "Open"
Returned == last.res # "pending"
OpenPath == last.arg[1]
OpenCS == last.arg[3]
OpenFd == last.ev[1][2]
\* Another caller holds the lock on path p: its Open has taken it and its
\* Device has not been closed.
OtherHolder(h, p) ==
  \E g \in Slots \ {h} : dev[g].st \in {"gpio", "open"} /\ dev[g].path = p

\* C4: two default-chip-select Devices never hold one path open; an open
\* Device keeps its descriptor and its lock whatever other Opens do; an Open
\* that reaches the lock while another holds it returns "device is in use";
\* and an Open fails only for that reason or because unix.Open or Flock
\* itself reported an error, so once the holder has closed it succeeds.
C4_ExclusiveOpen ==
  /\ \A g, h \in Slots :
       (g # h /\ dev[g].st = "open" /\ dev[h].st = "open"
          /\ dev[g].customCS = NoPin /\ dev[h].customCS = NoPin)
         => dev[g].path # dev[h].path
  /\ \A h \in Slots :
       dev[h].st = "open"
         => (fdtab[dev[h].fd] = dev[h].path /\ lock[dev[h].path] = dev[h].fd)
  /\ (IsOpen /\ Returned /\ OpenCS = NoPin)
       => /\ last.res \in {"nil", "busy", "openerr"}
          /\ (Len(last.ev) >= 2 /\ OtherHolder(last.h, OpenPath))
               => last.res = "busy"
          /\ last.res = "busy" => OtherHolder(last.h, OpenPath)
          /\ last.res = "openerr"
               => (OpenFd = NoFd \/ last.ev[2][3] = "ENOLCK")
          /\ last.res = "nil" => dev[last.h].st = "open"

C4_Witness ==
  /\ IsOpen /\ OpenCS = NoPin /\ last.res = "busy"
  /\ \E g \in Slots \ {last.h} :
       dev[g].st = "open" /\ dev[g].customCS = NoPin /\ dev[g].path = OpenPath

\* The re-open half of C4's scenario: an Open succeeds on a path whose
\* earlier Device has been closed.
C4_ReopenReached ==
  /\ IsOpen /\ OpenCS = NoPin /\ last.res = "nil"
  /\ \E g \in Slots \ {last.h} :
       dev[g].st = "closed" /\ dev[g].customCS = NoPin /\ dev[g].path = OpenPath

C6_FailedOpenCleansUp ==
  /\ (IsOpen /\ last.res \in {"busy", "openerr", "cserr"})
       => /\ dev[last.h].st = "none"
          /\ OpenFd # NoFd
               => /\ fdtab[OpenFd] = NoPath
                  /\ \A p \in Paths : lock[p] # OpenFd
                  /\ last.ev[Len(last.ev)] = <<"close", OpenFd>>
  /\ \A fd \in Fds :
       fdtab[fd] # NoPath
         => \E h \in Slots : /\ dev[h].st \in {"flock", "gpio", "open"}
                             /\ dev[h].fd = fd /\ dev[h].path = fdtab[fd]
  /\ \A p \in Paths :
       lock[p] # NoFd
         => \E h \in Slots : /\ dev[h].st \in {"gpio", "open"}
                             /\ dev[h].fd = lock[p] /\ dev[h].path = p

C6_Witness ==
  /\ IsOpen /\ last.res = "cserr"
  /\ Len(last.ev) = 4 /\ last.ev[2][3] = "nil"
  /\ fdtab[OpenFd] = NoPath

(***************************************************************************)
(* Callers that go on using a Device after its Close.  Nothing in Device   *)
(* stops them: every operation passes dev.fd to the system call as is.     *)
(***************************************************************************)
Closed(h) == dev[h].st = "closed"

CloseAgain(h) == Closed(h) /\ CloseDev(h)
TransferClosed(h, fail) == Closed(h) /\ DoTransfer(h, 1, 1, fail)
ModeClosed(h, fail) == Closed(h) /\ DoMode(h, fail)
SetModeClosed(h, fail) == Closed(h) /\ DoSetMode(h, <<3>>, fail)
LSBFirstClosed(h, fail) == Closed(h) /\ DoLSBFirst(h, fail)
SetLSBFirstClosed(h, fail) == Closed(h) /\ DoSetLSBFirst(h, TRUE, fail)
BitsPerWordClosed(h, fail) == Closed(h) /\ DoBitsPerWord(h, fail)
SetBitsPerWordClosed(h, fail) == Closed(h) /\ DoSetBitsPerWord(h, Pad(<<16>>, intSize), fail)
MaxSpeedClosed(h, fail) == Closed(h) /\ DoMaxSpeed(h, fail)
SetMaxSpeedClosed(h, fail) == Closed(h) /\ DoSetMaxSpeed(h, Pad(Million, intSize), fail)

NextUAC ==
  \/ \E h \in Slots, customCS \in CustomCSInputs, ok \in BOOLEAN :
        OpenBegin(h, DefaultPath, Pad(Million, intSize), customCS, ok)
  \/ \E h \in Slots, otherErr \in BOOLEAN : OpenFlock(h, otherErr)
  \/ \E h \in Slots, ok \in BOOLEAN : OpenGpio(h, ok)
  \/ \E h \in Slots : Close(h)
  \/ \E h \in Slots : CloseAgain(h)
  \/ \E h \in Slots, fail \in BOOLEAN : TransferClosed(h, fail)
  \/ \E h \in Slots, fail \in BOOLEAN : ModeClosed(h, fail)
  \/ \E h \in Slots, fail \in BOOLEAN : SetModeClosed(h, fail)
  \/ \E h \in Slots, fail \in BOOLEAN : LSBFirstClosed(h, fail)
  \/ \E h \in Slots, fail \in BOOLEAN : SetLSBFirstClosed(h, fail)
  \/ \E h \in Slots, fail \in BOOLEAN : BitsPerWordClosed(h, fail)
  \/ \E h \in Slots, fail \in BOOLEAN : SetBitsPerWordClosed(h, fail)
  \/ \E h \in Slots, fail \in BOOLEAN : MaxSpeedClosed(h, fail)
  \/ \E h \in Slots, fail \in BOOLEAN : SetMaxSpeedClosed(h, fail)

SpecUAC == Init /\ [][NextUAC]_vars

\* C7: once Close has been called on a Device, every operation on it fails
\* with an error and changes nothing in the kernel: no descriptor, no lock,
\* no device setting.
C7_ClosedDeviceInert ==
  [][\A h \in Slots :
       (Closed(h) /\ last'.h = h)
         => (last'.res # "nil" /\ UNCHANGED kernel)]_vars

\* What the code does keep: while the closed Device's descriptor number has
\* not been handed out again, every operation on it fails with EBADF and
\* changes nothing in the kernel.
ClosedDeviceInertWhileFdUnused ==
  [][\A h \in Slots :
       (Closed(h) /\ last'.h = h /\ fdtab[dev[h].fd] = NoPath)
         => (last'.res = "EBADF" /\ UNCHANGED kernel)]_vars

\* A setter on a closed Device succeeded: it wrote to the device that a later
\* Open was given under the same descriptor number.
ClosedDeviceReachedDevice ==
  /\ last.op = "SetMode" /\ Closed(last.h) /\ last.res = "nil"
  /\ \E g \in Slots \ {last.h} :
       dev[g].st = "open" /\ dev[g].fd = dev[last.h].fd
         /\ regs[dev[g].path][1] = <<3>>

(***************************************************************************)
(* The configuration accessors on open Devices, against the backend that   *)
(* stores and echoes.                                                      *)
(***************************************************************************)
IsOpenDev(h) == dev[h].st = "open"

Mode(h, fail) == IsOpenDev(h) /\ DoMode(h, fail)
SetMode(h, mode, fail) == IsOpenDev(h) /\ DoSetMode(h, mode, fail)
LSBFirst(h, fail) == IsOpenDev(h) /\ DoLSBFirst(h, fail)
SetLSBFirst(h, lsb, fail) == IsOpenDev(h) /\ DoSetLSBFirst(h, lsb, fail)
BitsPerWord(h, fail) == IsOpenDev(h) /\ DoBitsPerWord(h, fail)
SetBitsPerWord(h, n, fail) == IsOpenDev(h) /\ DoSetBitsPerWord(h, n, fail)
MaxSpeed(h, fail) == IsOpenDev(h) /\ DoMaxSpeed(h, fail)
SetMaxSpeed(h, n, fail) == IsOpenDev(h) /\ DoSetMaxSpeed(h, n, fail)

NextCfg ==
  \/ \E h \in Slots, ok \in BOOLEAN :
        OpenBegin(h, DefaultPath, Pad(Million, intSize), NoPin, ok)
  \/ \E h \in Slots, otherErr \in BOOLEAN : OpenFlock(h, otherErr)
  \/ \E h \in Slots : Close(h)
  \/ \E h \in Slots, fail \in BOOLEAN : Mode(h, fail)
  \/ \E h \in Slots, mode \in ModeInputs, fail \in BOOLEAN : SetMode(h, mode, fail)
  \/ \E h \in Slots, fail \in BOOLEAN : LSBFirst(h, fail)
  \/ \E h \in Slots, lsb \in BOOLEAN, fail \in BOOLEAN : SetLSBFirst(h, lsb, fail)
  \/ \E h \in Slots, fail \in BOOLEAN : BitsPerWord(h, fail)
  \/ \E h \in Slots, n \in BitsInputs, fail \in BOOLEAN : SetBitsPerWord(h, n, fail)
  \/ \E h \in Slots, fail \in BOOLEAN : MaxSpeed(h, fail)
  \/ \E h \in Slots, n \in IntInputs, fail \in BOOLEAN : SetMaxSpeed(h, n, fail)

SpecCfg == Init /\ [][NextCfg]_vars

\* The call that just returned follows, on the same Device, a successful
\* call of the named setter.
Follows(setter, getter) ==
  /\ last.op = setter /\ last.res = "nil"
  /\ last'.op = getter /\ last'.h = last.h

\* C8: Mode() right after a successful SetMode(m), m in 0..3, fails only if
\* the backend fails the call, and otherwise returns m.
C8_ModeRoundTrip ==
  [][(Follows("SetMode", "Mode") /\ last.arg \in {<<0>>, <<1>>, <<2>>, <<3>>})
       => /\ last'.res \in {"nil", "EIO"}
          /\ last'.res = "nil" => last'.val = last.arg]_vars

C8_Witness ==
  /\ last.op = "Mode" /\ last.res = "nil" /\ last.val = <<3>>
  /\ regs[dev[last.h].path][1] = <<3>>

\* n is a Go int with 0 <= n <= 2^32 - 1.
InUint32Range(n) ==
  IF Len(n) = 8 THEN SubSeq(n, 5, 8) = Zeros(4) ELSE n[4] < 128

\* C9: MaxSpeed() right after a successful SetMaxSpeed(n), 0 <= n <= 2^32-1,
\* fails only if the backend fails the call, and otherwise returns n.
C9_MaxSpeedRoundTrip ==
  [][(Follows("SetMaxSpeed", "MaxSpeed") /\ InUint32Range(last.arg))
       => /\ last'.res \in {"nil", "EIO"}
          /\ last'.res = "nil" => last'.val = last.arg]_vars

\* MaxSpeed() has returned 4294967295 (a build with 64-bit int).
C9_Witness ==
  /\ last.op = "MaxSpeed" /\ last.res = "nil"
  /\ last.val = <<255, 255, 255, 255, 0, 0, 0, 0>>

\* MaxSpeed() has returned 1000000 and 0.
C9_MillionReached ==
  last.op = "MaxSpeed" /\ last.res = "nil" /\ last.val = Pad(Million, intSize)
C9_ZeroReached ==
  last.op = "MaxSpeed" /\ last.res = "nil" /\ last.val = Zeros(intSize)

(***************************************************************************)
(* Read (the package's earlier variant): the loop that reissues unix.Read  *)
(* on the rest of the buffer.  The backend answers from a script, one      *)
(* entry per read: a byte count (cut to what the read asked for) or -1 for *)
(* an error; once the script is used up it has nothing more and answers 0  *)
(* bytes, as a descriptor at end of input does.  rd.got counts the bytes   *)
(* the backend delivered, rd.nerr the reads that failed, rd.tick the       *)
(* parity of the number of reads made.                                     *)
(***************************************************************************)
ReadResults == -1..MaxReadLen
Scripts == UNION {[1..k -> ReadResults] : k \in 0..MaxScript}
Min(a, b) == IF a <= b THEN a ELSE b

\* unix.Read(dev.fd, buf[off:]) against the script: n, or -1 with an error.
BackendRead(script, want) ==
  IF script = <<>> THEN 0
  ELSE IF Head(script) < 0 THEN -1
  ELSE Min(Head(script), want)

\* An offset set to the last count instead of advanced by it.
OffsetReplaced(off, n) == n
\* off += n
OffsetAfter(off, n) == off + n
\* the loop condition, off < len(buf)
LoopContinues(off, len) == off < len

\* Entry: chip-select asserted when there is one, off := 0.
ReadCall(len, cs, script) ==
  /\ rd.pc = "idle"
  /\ rd' = [pc |-> "loop", len |-> len, off |-> 0, got |-> 0, nerr |-> 0,
            cs |-> cs, asserted |-> cs # NoPin, res |-> "pending",
            script |-> script, tick |-> 0]
  /\ UNCHANGED <<intSize, dev, fdtab, lock, regs, last>>

\* One pass of the loop body: a read; an error returns it, a count advances off.
ReadStep ==
  /\ rd.pc = "loop"
  /\ LoopContinues(rd.off, rd.len)
  /\ LET n == BackendRead(rd.script, rd.len - rd.off)
         rest == IF rd.script = <<>> THEN <<>> ELSE Tail(rd.script)
     IN
     IF n < 0
     THEN rd' = [rd EXCEPT !.pc = "done", !.res = "EIO", !.asserted = FALSE,
                           !.nerr = @ + 1, !.script = rest, !.tick = 1 - @]
     ELSE rd' = [rd EXCEPT !.off = OffsetAfter(rd.off, n), !.got = @ + n,
                           !.script = rest, !.tick = 1 - @]
  /\ UNCHANGED <<intSize, dev, fdtab, lock, regs, last>>

\* The loop condition fails: return nil (and the deferred Write(false)).
ReadReturn ==
  /\ rd.pc = "loop"
  /\ ~LoopContinues(rd.off, rd.len)
  /\ rd' = [rd EXCEPT !.pc = "done", !.res = "nil", !.asserted = FALSE]
  /\ UNCHANGED <<intSize, dev, fdtab, lock, regs, last>>

NextRead ==
  \/ \E len \in 0..MaxReadLen, cs \in CustomCSInputs, script \in Scripts :
        ReadCall(len, cs, script)
  \/ ReadStep
  \/ ReadReturn

\* A Read that has been entered keeps running: the loop is never suspended.
SpecRead ==
  Init /\ [][NextRead]_vars /\ WF_vars(ReadStep) /\ WF_vars(ReadReturn)

ReadSafe ==
  /\ rd.off <= rd.len
  /\ rd.off = rd.got
  /\ rd.pc = "done" => /\ (rd.res = "nil") <=> (rd.got = rd.len)
                       /\ (rd.res = "EIO") <=> (rd.nerr = 1)
                       /\ rd.res \in {"nil", "EIO"}
                       /\ ~rd.asserted
  /\ rd.pc = "loop" => rd.nerr = 0

\* The backend has run dry with the buffer not yet full.
Starved == rd.pc = "loop" /\ rd.off < rd.len /\ rd.script = <<>>

\* C10 as claimed: whatever the backend answers (chunks of 0..remaining
\* bytes, or an error), Read returns, with success exactly when the count
\* has reached L and with the first error otherwise, and the offset never
\* exceeds L.
C10_ReadReturns ==
  /\ []ReadSafe
  /\ (rd.pc = "loop") ~> (rd.pc = "done")

\* C10 as amended: the same, except that Read returns only if the backend
\* delivers the missing bytes or an error; a read of 0 bytes is reissued, and
\* against a backend that has run dry the loop goes on, from then on
\* without end.
C10_ReadReturnsUnlessStarved ==
  /\ []ReadSafe
  /\ (rd.pc = "loop") ~> (rd.pc = "done" \/ Starved)
  /\ [](Starved => []Starved)

\* The partial chunks 2, 1 have filled a buffer of 3 and Read has returned nil
\* without asking the backend for its next answer, 0.
C10_Witness ==
  /\ rd.pc = "done" /\ rd.res = "nil" /\ rd.len = 3 /\ rd.got = 3
  /\ rd.script = <<0>>

\* A Read that got 0 bytes from a dry backend is still in its loop.
C10_StarvedReached == Starved /\ rd.tick = 1 /\ rd.got > 0

(***************************************************************************)
(* One Device in use: opened with a speed, then any sequence of transfers  *)
(* and accessor calls until its Close.                                     *)
(***************************************************************************)
\* Go ints handed to SetBitsPerWord: 0, 8, 255, 256, 264 and -1.
WordSizeInputs ==
  {Zeros(intSize), Pad(<<8>>, intSize), Pad(<<255>>, intSize),
   Pad(<<0, 1>>, intSize), Pad(<<8, 1>>, intSize), AllOnes(intSize)}

NextUse ==
  \/ \E h \in Slots, speed \in OpenSpeeds, ok \in BOOLEAN :
        OpenBegin(h, DefaultPath, speed, NoPin, ok)
  \/ \E h \in Slots, otherErr \in BOOLEAN : OpenFlock(h, otherErr)
  \/ \E h \in Slots : Close(h)
  \/ \E h \in Slots, ls \in Lens, lr \in Lens, fail \in BOOLEAN : Transfer(h, ls, lr, fail)
  \/ \E h \in Slots, fail \in BOOLEAN : Mode(h, fail)
  \/ \E h \in Slots, fail \in BOOLEAN : SetMode(h, <<3>>, fail)
  \/ \E h \in Slots, fail \in BOOLEAN : LSBFirst(h, fail)
  \/ \E h \in Slots, fail \in BOOLEAN : SetLSBFirst(h, TRUE, fail)
  \/ \E h \in Slots, fail \in BOOLEAN : BitsPerWord(h, fail)
  \/ \E h \in Slots, n \in WordSizeInputs, fail \in BOOLEAN : SetBitsPerWord(h, n, fail)
  \/ \E h \in Slots, fail \in BOOLEAN : MaxSpeed(h, fail)
  \/ \E h \in Slots, n \in IntInputs, fail \in BOOLEAN : SetMaxSpeed(h, n, fail)

SpecUse == Init /\ [][NextUse]_vars

\* The call c is a Transfer that submitted its descriptor to the kernel.
Submitted(c) ==
  c.op = "Transfer" /\ \E i \in DOMAIN c.ev : c.ev[i][1] = "ioctl"
IoctlEvent(c) == c.ev[CHOOSE i \in DOMAIN c.ev : c.ev[i][1] = "ioctl"]
Descriptor(c) == IoctlEvent(c)[4]

\* C11: the Transfer that follows a successful SetMaxSpeed(n), 0 <= n <=
\* 2^32 - 1, on the same open Device carries speed_hz = n in its descriptor.
C11_SetMaxSpeedGovernsTransfer ==
  [][(/\ last.op = "SetMaxSpeed" /\ last.res = "nil" /\ InUint32Range(last.arg)
      /\ Submitted(last') /\ last'.h = last.h)
       => Descriptor(last').speed_hz = ToUint32(last.arg)]_vars

\* What the code does after SetMaxSpeed(0) on a Device opened at 1000000 Hz:
\* the kernel holds 0 as the device's speed and the Transfer still carries
\* the speed given to Open.
SetMaxSpeedIgnoredByTransfer ==
  /\ Submitted(last) /\ last.res = "nil"
  /\ regs[dev[last.h].path][4] = Zeros(4)
  /\ Descriptor(last).speed_hz = Pad(Million, 4)

(***************************************************************************)
(* Request codes against the values whose addresses are passed with them.  *)
(***************************************************************************)
RECURSIVE SumWidths(_)
SumWidths(fields) ==
  IF fields = {} THEN 0
  ELSE LET f == CHOOSE f \in fields : TRUE
       IN  spi_ioc_transfer_width[f] + SumWidths(fields \ {f})

\* Bytes of the value an API call passes to its ioctl: the descriptor's
\* fields for Transfer, the scratch variable for an accessor.
PassedWidth(c, arg) ==
  IF c.op = "Transfer" THEN SumWidths(DOMAIN arg) ELSE Len(arg)

ReadWritePairs ==
  {<<spi_IOC_RD_MODE, spi_IOC_WR_MODE>>,
   <<spi_IOC_RD_LSB_FIRST, spi_IOC_WR_LSB_FIRST>>,
   <<spi_IOC_RD_BITS_PER_WORD, spi_IOC_WR_BITS_PER_WORD>>,
   <<spi_IOC_RD_MAX_SPEED_HZ, spi_IOC_WR_MAX_SPEED_HZ>>}

\* C12: in every device-control call the API issues, the size field of the
\* request code is the byte width of the value passed: 1 for the mode,
\* LSB-first and bits-per-word codes, 4 for the max-speed codes, 32 (the sum
\* of the descriptor's field widths) for base + 1 * increment; and a read code
\* and its write counterpart differ in the direction bits only.
C12_PayloadSizes ==
  /\ \A i \in DOMAIN last.ev :
       last.ev[i][1] = "ioctl"
         => LET op == last.ev[i][3]
                arg == last.ev[i][4]
            IN  /\ IocSize(op) = PassedWidth(last, arg)
                /\ last.op \in {"Mode", "SetMode", "LSBFirst", "SetLSBFirst",
                                "BitsPerWord", "SetBitsPerWord"}
                     => (IocSize(op) = 1 /\ IocNr(op) \in 1..3)
                /\ last.op \in {"MaxSpeed", "SetMaxSpeed"}
                     => (IocSize(op) = 4 /\ IocNr(op) = 4)
                /\ last.op = "Transfer"
                     => /\ op = Add32(spi_IOC_MESSAGE_base, spi_IOC_MESSAGE_incr)
                        /\ IocSize(op) = 32
                        /\ SumWidths(DOMAIN arg) = 32
                /\ IocType(op) = SpiIocMagic
  /\ \A pr \in ReadWritePairs :
       /\ IocDir(pr[1]) = IocRead /\ IocDir(pr[2]) = IocWrite
       /\ IocSize(pr[1]) = IocSize(pr[2])
       /\ pr[1][2] = pr[2][2]

\* A Transfer has submitted its 32-byte descriptor under the code 0x40206B00.
C12_Witness ==
  /\ Submitted(last) /\ last.res = "nil"
  /\ IoctlEvent(last)[3] = <<\h4020, \h6B00>>
  /\ IocSize(IoctlEvent(last)[3]) = 32

\* A four-byte scratch value has gone out under a max-speed code, and a
\* one-byte value under a bits-per-word code.
C12_SpeedCallReached ==
  /\ last.op = "MaxSpeed" /\ last.res = "nil"
  /\ Len(last.ev[1][4]) = 4 /\ IocSize(last.ev[1][3]) = 4
C12_ByteCallReached ==
  /\ last.op = "SetBitsPerWord" /\ last.res = "nil"
  /\ Len(last.ev[1][4]) = 1 /\ IocSize(last.ev[1][3]) = 1

(***************************************************************************)
(* The speed a Device stores and the descriptor Transfer builds from it.   *)
(***************************************************************************)
Opened(h) == dev[h].st \in {"flock", "gpio", "open", "closed"}

\* C13: the speed a Device stores is the one passed to Open and no later
\* operation changes it; every Transfer that reaches the kernel submits one
\* segment whose descriptor has speed_hz = that speed mod 2^32, len = the
\* buffer length, bits_per_word = 8 and delay_usecs = 0.
C13_SpeedFixedAtOpen ==
  [][/\ \A h \in Slots :
          (Opened(h) /\ Opened(h)') => dev[h].speed' = dev[h].speed
     /\ \A h \in Slots :
          (~Opened(h) /\ Opened(h)')
            => (last'.op = "Open" /\ last'.h = h /\ dev[h].speed' = last'.arg[2])
     /\ Submitted(last')
          => /\ Cardinality({i \in DOMAIN last'.ev : last'.ev[i][1] = "ioctl"}) = 1
             /\ IoctlEvent(last')[3] = spi_IOC_MESSAGE(1)
             /\ IocSize(IoctlEvent(last')[3]) = 1 * TransferSize
             /\ Descriptor(last').speed_hz = SubSeq(dev[last'.h].speed, 1, 4)
             /\ Descriptor(last').len = U32OfNat(last'.arg[1])
             /\ Descriptor(last').len = U32OfNat(last'.arg[2])
             /\ Descriptor(last').bits_per_word = 8
             /\ Descriptor(last').delay_usecs = 0
     /\ (last'.op = "Transfer" /\ last'.arg[1] = last'.arg[2] /\ last'.arg[1] > 0)
          => Submitted(last')]_vars

\* A Device opened at 1000000 Hz has had its bits-per-word and its maximum
\* speed set to other values in the kernel, and its Transfer of two bytes
\* still carries 1000000 Hz, 8 bits per word and no delay.
C13_Witness ==
  /\ Submitted(last) /\ last.res = "nil" /\ last.arg = <<2, 2>>
  /\ dev[last.h].speed = Pad(Million, intSize)
  /\ regs[dev[last.h].path][4] = <<255, 255, 255, 127>>
  /\ regs[dev[last.h].path][3] = <<0>>
  /\ Descriptor(last).speed_hz = Pad(Million, 4)
  /\ Descriptor(last).len = <<2, 0, 0, 0>>
  /\ Descriptor(last).bits_per_word = 8

\* A Device opened with a speed that does not fit 32 bits (2^32 + 1000000)
\* transfers at that speed mod 2^32.
C13_ReducedSpeedReached ==
  /\ Submitted(last) /\ Len(dev[last.h].speed) = 8
  /\ SubSeq(dev[last.h].speed, 5, 8) = <<1, 0, 0, 0>>
  /\ Descriptor(last).speed_hz = Pad(Million, 4)

(***************************************************************************)
(* The setters' narrowing conversions.                                     *)
(***************************************************************************)
\* v + 1 from byte i upwards, the carry dropped at the integer's width.
RECURSIVE Carry(_, _)
Carry(v, i) ==
  IF i > Len(v) THEN v
  ELSE IF v[i] = 255 THEN Carry([v EXCEPT ![i] = 0], i + 1)
  ELSE [v EXCEPT ![i] = @ + 1]
\* n + 256 for a Go int n.
Plus256(n) == Carry(n, 2)

\* 0 <= n <= 255 for a Go int n.
InUint8Range(n) == SubSeq(n, 2, Len(n)) = Zeros(Len(n) - 1)

\* The one ioctl a setter made: its request code and the bytes passed.
SetterCall(c) == <<c.ev[1][3], c.ev[1][4]>>

\* C14: SetBitsPerWord(n) passes the kernel n mod 256 (the low byte of n) and
\* SetMaxSpeed(n) n mod 2^32 (the low four bytes), whatever n is; the call
\* returns an error only if the kernel call does; and SetBitsPerWord(n + 256)
\* made after SetBitsPerWord(n) on the same Device makes the same call with
\* the same effect.
C14_SettersReduce ==
  /\ [](last.op = "SetBitsPerWord"
          => /\ Len(last.ev) = 1
             /\ SetterCall(last) = <<spi_IOC_WR_BITS_PER_WORD, <<last.arg[1]>> >>
             /\ last.res \in {"nil", "EIO"}
             /\ last.res = "nil"
                  => regs[dev[last.h].path][3] = <<last.arg[1]>>)
  /\ [](last.op = "SetMaxSpeed"
          => /\ Len(last.ev) = 1
             /\ SetterCall(last) = <<spi_IOC_WR_MAX_SPEED_HZ,
                                     <<last.arg[1], last.arg[2], last.arg[3], last.arg[4]>> >>
             /\ last.res \in {"nil", "EIO"}
             /\ last.res = "nil"
                  => regs[dev[last.h].path][4] = SetterCall(last)[2])
  /\ [][(/\ last.op = "SetBitsPerWord" /\ last'.op = "SetBitsPerWord"
          /\ last'.h = last.h /\ last'.arg = Plus256(last.arg))
           => /\ last'.ev = last.ev
              /\ (last.res = "nil" /\ last'.res = "nil") => regs' = regs]_vars

\* SetBitsPerWord(264) has returned nil and the kernel holds 8.
C14_Witness ==
  /\ last.op = "SetBitsPerWord" /\ last.res = "nil"
  /\ last.arg = Pad(<<8, 1>>, intSize) /\ ~InUint8Range(last.arg)
  /\ SetterCall(last)[2] = <<8>>
  /\ regs[dev[last.h].path][3] = <<8>>

\* SetBitsPerWord(256) has written 0, SetBitsPerWord(-1) has written 255, and
\* SetMaxSpeed(2^32 + 1000000) has written 1000000, each without an error.
C14_ZeroWritten ==
  /\ last.op = "SetBitsPerWord" /\ last.res = "nil"
  /\ last.arg = Pad(<<0, 1>>, intSize) /\ regs[dev[last.h].path][3] = <<0>>
C14_NegativeWritten ==
  /\ last.op = "SetBitsPerWord" /\ last.res = "nil"
  /\ last.arg = AllOnes(intSize) /\ regs[dev[last.h].path][3] = <<255>>
C14_WideSpeedWritten ==
  /\ last.op = "SetMaxSpeed" /\ last.res = "nil" /\ ~InUint32Range(last.arg)
  /\ last.arg = Pad(Million, 4) \o <<1, 0, 0, 0>>
  /\ regs[dev[last.h].path][4] = Pad(Million, 4)

====
